---- MODULE Spec2Model ----
(***************************************************************************)
(* Model of the byvalver verification harness:                             *)
(*   verify_denulled.py  - bad-character analyzer, verification engine,    *)
(*                         batch verifier, command-line entry point        *)
(*   test_all_bins.py    - process runner and dual-mode corpus run         *)
(* Offsets are 0-based as in Python; a TLA+ sequence s holds the byte at   *)
(* offset i in s[i + 1].                                                   *)
(***************************************************************************)
EXTENDS Integers, Sequences, FiniteSets, TLC

\* ------------------------------------------------------------------ bounds
\* largest byte value modelled (255 in the program)
MaxByte == 2
\* longest byte sequence handed to the analyzer
MaxLen == 4
\* longest file in single-file mode
MaxFileLen == 2
\* longest file in a batch
MaxBatchFileLen == 1
\* most files a batch discovers
MaxFiles == 2
\* most files in the corpus
MaxBins == 1
\* longest output the transformer writes
MaxOutLen == 1
\* largest exit code of the transformer
MaxExit == 1
\* longest --bad-chars string
MaxStrLen == 5
\* the largest byte value (line 36)
MaxByteValue == 255

Byte == 0..MaxByte

RECURSIVE SeqsUpTo(_, _)
SeqsUpTo(S, n) ==
    IF n = 0 THEN {<<>>}
    ELSE LET shorter == SeqsUpTo(S, n - 1)
         IN  shorter \cup {Append(s, x) : s \in {t \in shorter : Len(t) = n - 1}, x \in S}

RECURSIVE SumSeq(_)
SumSeq(s) == IF s = <<>> THEN 0 ELSE Head(s) + SumSeq(Tail(s))

RECURSIVE MaxSeq(_, _)
MaxSeq(s, default) ==
    IF s = <<>> THEN default
    ELSE LET m == MaxSeq(Tail(s), Head(s)) IN IF Head(s) >= m THEN Head(s) ELSE m

BadOffsets(data, S) == {i \in 0..(Len(data) - 1) : data[i + 1] \in S}
OffsetsOf(data, v) == {i \in 0..(Len(data) - 1) : data[i + 1] = v}

\* Python's optional argument: None or a value.
None == [some |-> FALSE, v |-> {}]
Some(x) == [some |-> TRUE, v |-> x]

\* ------------------------------------------------- verify_denulled.py: analyzer
VARIABLES shellcode_data, bad_chars, analysis

\* ------------------------------------- verify_denulled.py: main and batch state
VARIABLES
    tool_pc,            \* position in main(): "idle", "main", "loop", "summary", "returned", "exited"
    mode,               \* "file" or "dir": input_path.is_dir() (line 417)
    input_file,         \* single-file mode: the file at input_path
    output_file,        \* single-file mode: the file at output_path, when given
    verdict,            \* single-file mode: how verify_bad_char_elimination ended
    output_dir,         \* TRUE when an output path was given (line 409)
    continue_on_error,  \* --continue-on-error
    n_files,            \* batch: len(input_files)
    results,            \* batch: the results list
    stats,              \* batch: the stats dict
    observed,           \* batch: what was on disk for each file handed to the engine
    batch_return,       \* batch: the value batch_verify_bad_char_elimination returned
    exit_code           \* sys.exit status, -1 while running

\* ------------------------------------------------ verify_denulled.py: parse_bad_chars
VARIABLES
    bad_chars_str,      \* the --bad-chars string, a sequence of characters
    parsed_bad_chars    \* what parse_bad_chars returned, None before the call

\* ------------------------------------------------ test_all_bins.py: main state
VARIABLES
    corpus_pc,          \* position in main(): "idle", "biphasic", "non_biphasic", "save",
                        \* "summary", "done", "crashed" (an exception left main)
    total_count,        \* len(bin_files)
    tests,              \* results['tests']
    cstats,             \* the stats dict, per mode
    biphasic_test,      \* the biphasic outcome of the file being processed
    parsed_stats,       \* the latest value returned by parse_byvalver_output
    last_run,           \* what the transformer did in the latest invocation
    report_written,     \* RESULTS_FILE has been written (line 368)
    comparison          \* the mode comparison of the summary (lines 422-440)

\* bad_chars defaults to {0x00} when not given (lines 56-57)
DefaultBadChars(arg) == IF arg.some THEN arg.v ELSE {0}

\* inner while of lines 75-77, stopping at a change of byte value
InnerWhileSameValue(data, bad, i, seq_bytes) ==
    LET RECURSIVE go(_, _)
        go(j, acc) ==
            IF j < Len(data) /\ data[j + 1] \in bad /\ data[j + 1] = data[i + 1]
            THEN go(j + 1, Append(acc, data[j + 1]))
            ELSE [i |-> j, seq_bytes |-> acc]
    IN  go(i, seq_bytes)

\* inner while of lines 75-77: consume the run of bad bytes starting at i
RECURSIVE InnerWhile(_, _, _, _)
InnerWhile(data, bad, i, seq_bytes) ==
    IF i < Len(data) /\ data[i + 1] \in bad
    THEN InnerWhile(data, bad, i + 1, Append(seq_bytes, data[i + 1]))
    ELSE [i |-> i, seq_bytes |-> seq_bytes]

\* outer while of lines 66-81
RECURSIVE OuterWhile(_, _, _, _, _, _)
OuterWhile(data, bad, i, bad_char_count, bad_char_positions, bad_char_sequences) ==
    IF i < Len(data)
    THEN IF data[i + 1] \in bad
         THEN LET run == InnerWhile(data, bad, i, <<>>)
              IN  OuterWhile(data, bad, run.i,
                             bad_char_count + 1,
                             [bad_char_positions EXCEPT ![data[i + 1]] = Append(@, i)],
                             Append(bad_char_sequences,
                                    [start |-> i, length |-> run.i - i, bytes |-> run.seq_bytes]))
         ELSE OuterWhile(data, bad, i + 1, bad_char_count, bad_char_positions, bad_char_sequences)
    ELSE [bad_char_count |-> bad_char_count,
          bad_char_positions |-> bad_char_positions,
          bad_char_sequences |-> bad_char_sequences]

\* analyze_shellcode_for_bad_chars (lines 45-91); the percentage is left out
\* (a float used only for display)
analyze_shellcode_for_bad_chars(data, bad_arg) ==
    LET bad == DefaultBadChars(bad_arg)
        r   == OuterWhile(data, bad, 0, 0, [b \in bad |-> <<>>], <<>>)
    IN  [total_bytes |-> Len(data),
         bad_char_count |-> r.bad_char_count,
         bad_char_positions |-> r.bad_char_positions,
         bad_char_sequences |-> r.bad_char_sequences,
         max_consecutive_bad_chars |->
             MaxSeq([k \in 1..Len(r.bad_char_sequences) |-> r.bad_char_sequences[k].length], 0),
         bad_chars_used |-> bad]


\* ------------------------------------------------ verify_denulled.py: engine
\* a path on disk: missing, present but not readable (a directory, no
\* permission), or a regular file with its bytes
AbsentFile == [given |-> TRUE, kind |-> "absent", data |-> <<>>]
UnreadableFile == [given |-> TRUE, kind |-> "unreadable", data |-> <<>>]
RegularFile(d) == [given |-> TRUE, kind |-> "file", data |-> d]
NoFile == [given |-> FALSE, kind |-> "none", data |-> <<>>]

Return(b) == [kind |-> "return", value |-> b]
Raise == [kind |-> "raise", value |-> FALSE]
NoVerdict == [kind |-> "none", value |-> FALSE]

\* the verdict of lines 184-191, passing whenever the count did not go up
VerificationPassedIfNotWorse(original_bad_char_count, remaining_bad_char_count, size_change) ==
    remaining_bad_char_count <= original_bad_char_count

\* the verdict of lines 176-191
VerificationPassed(original_bad_char_count, remaining_bad_char_count, size_change) ==
    remaining_bad_char_count = 0

\* verify_bad_char_elimination (lines 93-191)
verify_bad_char_elimination(inp, out, bad_arg) ==
    IF inp.kind = "absent" THEN Return(FALSE)                       \* 117-119
    ELSE IF inp.kind = "unreadable" THEN Raise                      \* open() at 121
    ELSE LET input_analysis == analyze_shellcode_for_bad_chars(inp.data, bad_arg)
         IN  IF ~out.given THEN Return(input_analysis.bad_char_count = 0)   \* 141-145
             ELSE IF out.kind = "absent" THEN Return(FALSE)                  \* 148-150
             ELSE IF out.kind = "unreadable" THEN Raise                      \* open() at 152
             ELSE LET output_analysis == analyze_shellcode_for_bad_chars(out.data, bad_arg)
                  IN  Return(VerificationPassed(
                                 input_analysis.bad_char_count,
                                 output_analysis.bad_char_count,
                                 output_analysis.total_bytes - input_analysis.total_bytes))


\* ------------------------------------------------ test_all_bins.py: runner
Modes == {"biphasic", "non_biphasic"}
NoExitCode == [some |-> FALSE, v |-> 0]

\* a line of the transformer's text: the marker it carries and the token that
\* follows the marker
Line(m, t) == [marker |-> m, token |-> t]
IntTable == [t \in {"0", "1", "3"} |-> CASE t = "0" -> 0 [] t = "1" -> 1 [] t = "3" -> 3]
\* int(): a ValueError unless the token is a decimal number
IsInt(t) == t \in DOMAIN IntTable
\* the texts a run can print: nothing, every marker with a number, a size
\* that is no number, an instruction count that is no number
Texts ==
    {[stdout |-> <<>>, stderr |-> <<>>],
     [stdout |-> <<Line("Original shellcode size:", "3"), Line("Modified shellcode size:", "3")>>,
      stderr |-> <<Line("[DISASM] Disassembled", "1"), Line("other", "")>>],
     [stdout |-> <<Line("Modified shellcode size:", "x")>>, stderr |-> <<>>],
     [stdout |-> <<>>, stderr |-> <<Line("[DISASM] Disassembled", "x")>>]}

\* analyze_shellcode_for_nulls (lines 40-46)
RECURSIVE analyze_shellcode_for_nulls(_)
analyze_shellcode_for_nulls(data) ==
    IF data = <<>> THEN 0
    ELSE (IF Head(data) = 0 THEN 1 ELSE 0) + analyze_shellcode_for_nulls(Tail(data))

\* What one invocation of the transformer can do.  The output path is a
\* temporary file that main() created empty before the run (lines 233-234,
\* 284-285, delete=False): the transformer leaves it alone, writes it or
\* removes it.  "raise" is any exception out of subprocess.run other than
\* the timeout.
Effects ==
    {[effect |-> "none", data |-> <<>>], [effect |-> "delete", data |-> <<>>]}
        \cup {[effect |-> "write", data |-> d] : d \in SeqsUpTo(Byte, MaxOutLen)}
Behaviours ==
    {[launch |-> l, returncode |-> 0, stdout |-> <<>>, stderr |-> <<>>, file |-> f] :
        l \in {"timeout", "raise"}, f \in Effects}
    \cup {[launch |-> "exit", returncode |-> r, stdout |-> t.stdout, stderr |-> t.stderr,
            file |-> f] : r \in 0..MaxExit, t \in Texts, f \in Effects}

OutputExists(beh) == beh.file.effect # "delete"

\* run_byvalver (lines 48-112); execution_time and nulls_in_original are
\* display values and are left out
run_byvalver(beh) ==
    LET initial == [success |-> FALSE, output |-> <<>>, error |-> <<>>,
                    exit_code |-> NoExitCode, timed_out |-> FALSE, nulls_remaining |-> -1]
    IN  IF beh.launch = "timeout"
        THEN [initial EXCEPT !.timed_out = TRUE, !.error = <<Line("other", "")>>]  \* 104-106
        ELSE IF beh.launch = "raise"
        THEN [initial EXCEPT !.error = <<Line("other", "")>>]                      \* 107-109
        ELSE LET exited == [initial EXCEPT !.exit_code = Some(beh.returncode),
                                           !.output = beh.stdout, !.error = beh.stderr]
             IN  IF beh.returncode = 0 /\ OutputExists(beh)                         \* 84-97
                 THEN LET nulls == analyze_shellcode_for_nulls(beh.file.data)
                      IN  [exited EXCEPT !.nulls_remaining = nulls, !.success = (nulls = 0)]
                 ELSE exited                                                        \* 98-102

ValueError == [raised |-> TRUE, original_size |-> 0, modified_size |-> 0,
               instructions_disassembled |-> 0]

\* parse_byvalver_output (lines 114-157): the sizes and the instruction count;
\* int() raises ValueError on a token that is no number
RECURSIVE ParseLines(_, _)
ParseLines(lines, st) ==
    IF lines = <<>> \/ st.raised THEN st
    ELSE LET line == Head(lines)
             numeric == line.marker \in {"Original shellcode size:", "Modified shellcode size:",
                                         "[DISASM] Disassembled"}
         IN  IF numeric /\ ~IsInt(line.token) THEN ValueError
             ELSE ParseLines(Tail(lines),
                    CASE line.marker = "Original shellcode size:" ->
                             [st EXCEPT !.original_size = IntTable[line.token]]
                      [] line.marker = "Modified shellcode size:" ->
                             [st EXCEPT !.modified_size = IntTable[line.token]]
                      [] line.marker = "[DISASM] Disassembled" ->
                             [st EXCEPT !.instructions_disassembled = IntTable[line.token]]
                      [] OTHER -> st)

parse_byvalver_output(output, error) ==
    ParseLines(error,
        ParseLines(output, [raised |-> FALSE, original_size |-> 0, modified_size |-> 0,
                            instructions_disassembled |-> 0]))

\* the status chain of lines 243-258, trusting the exit code alone for success
StatusTrustingExitCode(result) ==
    IF result.timed_out THEN "TIMEOUT"
    ELSE IF result.exit_code = Some(0) /\ result.nulls_remaining >= 0 THEN "SUCCESS"
    ELSE IF result.exit_code = Some(0) /\ result.nulls_remaining > 0 THEN "NULLS_REMAINING"
    ELSE IF result.exit_code # Some(0) THEN "ERROR"
    ELSE "FAILED"

\* the status chain of lines 243-258, taking a missing exit code for no error
StatusNoneIsNotError(result) ==
    IF result.timed_out THEN "TIMEOUT"
    ELSE IF result.success THEN "SUCCESS"
    ELSE IF result.exit_code = Some(0) /\ result.nulls_remaining > 0 THEN "NULLS_REMAINING"
    ELSE IF result.exit_code.some /\ result.exit_code # Some(0) THEN "ERROR"
    ELSE "FAILED"

\* the status chain of lines 243-258 and 294-309
Status(result) ==
    IF result.timed_out THEN "TIMEOUT"
    ELSE IF result.success THEN "SUCCESS"
    ELSE IF result.exit_code = Some(0) /\ result.nulls_remaining > 0 THEN "NULLS_REMAINING"
    ELSE IF result.exit_code # Some(0) THEN "ERROR"
    ELSE "FAILED"

\* the counter of lines 243-258, taking NULLS_REMAINING for an error
CounterNullsAsErrors(status) ==
    CASE status = "TIMEOUT" -> "timed_out"
      [] status = "SUCCESS" -> "successful"
      [] status \in {"ERROR", "NULLS_REMAINING"} -> "errors"
      [] OTHER -> "failed"

\* the counter each status increments (lines 246-258, 297-309)
Counter(status) ==
    CASE status = "TIMEOUT" -> "timed_out"
      [] status = "SUCCESS" -> "successful"
      [] status = "ERROR" -> "errors"
      [] OTHER -> "failed"

\* the stats updates for one outcome (lines 243-272, 294-323)
UpdateStats(st, m, result) ==
    [st EXCEPT ![m] =
        [@ EXCEPT ![Counter(Status(result))] = @ + 1,
                  !.total_null_bytes_found = @ + result.nulls_remaining,
                  !.files_with_nulls = @ + (IF result.nulls_remaining > 0 THEN 1 ELSE 0)]]

\* the per-mode record stored in file_result (lines 335-357)
TestRecord(result) ==
    [status |-> Status(result), exit_code |-> result.exit_code,
     timed_out |-> result.timed_out, nulls_remaining |-> result.nulls_remaining]

ZeroModeStats == [successful |-> 0, failed |-> 0, timed_out |-> 0, errors |-> 0,
                  total_null_bytes_found |-> 0, files_with_nulls |-> 0]
NoTest == [status |-> "none", exit_code |-> NoExitCode, timed_out |-> FALSE, nulls_remaining |-> -1]
NoRun == [launch |-> "none", returncode |-> 0, file |-> [effect |-> "none", data |-> <<>>]]
\* the part of a behaviour that is not text
Ran(beh) == [launch |-> beh.launch, returncode |-> beh.returncode, file |-> beh.file]
NoParse == [raised |-> FALSE, original_size |-> -1, modified_size |-> -1,
            instructions_disassembled |-> -1]
NoComparison == [better_biphasic |-> -1, better_non_biphasic |-> -1, same_result |-> -1]

CorpusIdle ==
    /\ corpus_pc = "idle" /\ total_count = 0 /\ tests = <<>>
    /\ cstats = [m \in Modes |-> ZeroModeStats]
    /\ biphasic_test = NoTest /\ parsed_stats = NoParse /\ last_run = NoRun
    /\ report_written = FALSE /\ comparison = NoComparison


\* ------------------------------------------------ verify_denulled.py: parse_bad_chars
\* the characters a --bad-chars string is made of here: two hexadecimal
\* digits, a letter that is no digit, a sign, a blank and the separator
Chars == {"0", "f", "Z", "-", " ", ","}
HexValue == [c \in {"0", "f"} |-> IF c = "0" THEN 0 ELSE 15]

\* str.split(','): the parts between the separators, empty parts included
RECURSIVE Split(_, _)
Split(str, part) ==
    IF str = <<>> THEN <<part>>
    ELSE IF Head(str) = "," THEN <<part>> \o Split(Tail(str), <<>>)
    ELSE Split(Tail(str), Append(part, Head(str)))

\* str.strip(): blanks removed at both ends
RECURSIVE LStrip(_)
LStrip(part) == IF part # <<>> /\ Head(part) = " " THEN LStrip(Tail(part)) ELSE part
RECURSIVE RStrip(_)
RStrip(part) ==
    IF part # <<>> /\ part[Len(part)] = " " THEN RStrip(SubSeq(part, 1, Len(part) - 1)) ELSE part
Strip(part) == RStrip(LStrip(part))

RECURSIVE HexDigits(_, _)
HexDigits(digits, acc) ==
    IF digits = <<>> THEN acc ELSE HexDigits(Tail(digits), acc * 16 + HexValue[Head(digits)])

\* int(part, 16): an optional sign and at least one digit, ValueError otherwise
IntBase16(part) ==
    LET negative == part # <<>> /\ Head(part) = "-"
        digits == IF negative THEN Tail(part) ELSE part
    IN  IF digits = <<>> \/ \E k \in 1..Len(digits) : digits[k] \notin DOMAIN HexValue
        THEN [ok |-> FALSE, val |-> 0]
        ELSE [ok |-> TRUE, val |-> IF negative THEN 0 - HexDigits(digits, 0)
                                   ELSE HexDigits(digits, 0)]

\* the range check of line 36, leaving the top value out
InRangeExclusive(byte_val) == 0 <= byte_val /\ byte_val < MaxByteValue

\* the range check of line 36
InRange(byte_val) == 0 <= byte_val /\ byte_val <= MaxByteValue

\* the loop of lines 30-41 over the parts
RECURSIVE ParseParts(_, _)
ParseParts(parts, acc) ==
    IF parts = <<>> THEN acc
    ELSE LET part == Strip(Head(parts))
             byte_val == IntBase16(part)
         IN  IF part = <<>> THEN ParseParts(Tail(parts), acc)                 \* 32-33
             ELSE IF byte_val.ok /\ InRange(byte_val.val)
             THEN ParseParts(Tail(parts), acc \cup {byte_val.val})              \* 35-37
             ELSE ParseParts(Tail(parts), acc)                                  \* 38-41

\* parse_bad_chars (lines 16-43)
parse_bad_chars(str) ==
    IF str = <<>> THEN {0}
    ELSE LET parsed == ParseParts(Split(str, <<>>), {})
         IN  IF parsed # {} THEN parsed ELSE {0}

ParseIdle == bad_chars_str = <<>> /\ parsed_bad_chars = None

NoAnalysis == [total_bytes |-> -1]

analyzerVars == <<shellcode_data, analysis>>
toolVars == <<tool_pc, mode, input_file, output_file, verdict, output_dir, continue_on_error,
              n_files, results, stats, observed, batch_return, exit_code>>
corpusVars == <<corpus_pc, total_count, tests, cstats, biphasic_test, parsed_stats, last_run,
                report_written, comparison>>
parseVars == <<bad_chars_str, parsed_bad_chars>>
vars == <<shellcode_data, bad_chars, analysis, toolVars, corpusVars, parseVars>>

ZeroStats == [total |-> 0, successful |-> 0, failed |-> 0, errors |-> 0]
NoReturn == [total |-> -1]

AnalyzerIdle == shellcode_data = <<>> /\ analysis = NoAnalysis
ToolIdle ==
    /\ tool_pc = "idle" /\ mode = "file"
    /\ input_file = NoFile /\ output_file = NoFile /\ verdict = NoVerdict
    /\ output_dir = FALSE /\ continue_on_error = FALSE /\ n_files = 0
    /\ results = <<>> /\ stats = ZeroStats /\ observed = <<>>
    /\ batch_return = NoReturn /\ exit_code = -1

BadCharArgs == {None} \cup {Some(S) : S \in SUBSET Byte}

\* ------------------------------------------------ specification: one analyzer call
InitAnalyze ==
    /\ shellcode_data \in SeqsUpTo(Byte, MaxLen)
    /\ bad_chars \in BadCharArgs
    /\ analysis = NoAnalysis
    /\ ToolIdle
    /\ CorpusIdle
    /\ ParseIdle

Analyze ==
    /\ analysis = NoAnalysis
    /\ analysis' = analyze_shellcode_for_bad_chars(shellcode_data, bad_chars)
    /\ UNCHANGED <<parseVars, shellcode_data, bad_chars, toolVars, corpusVars>>

NextAnalyze == Analyze

SpecAnalyze == InitAnalyze /\ [][NextAnalyze]_vars

\* ------------------------------------------------ specification: verify_denulled.main
FilesUpTo(n) == {AbsentFile, UnreadableFile} \cup {RegularFile(d) : d \in SeqsUpTo(Byte, n)}
InputFiles == FilesUpTo(MaxFileLen)
\* glob() + is_file() (lines 236-243): a discovered input exists
DiscoveredFiles == FilesUpTo(MaxBatchFileLen) \ {AbsentFile}
MirroredFiles == FilesUpTo(MaxBatchFileLen)

\* main() up to line 414: the parsed bad-character set is never empty
InitTool ==
    /\ AnalyzerIdle
    /\ bad_chars \in {Some(S) : S \in (SUBSET Byte) \ {{}}}
    /\ tool_pc = "main"
    /\ mode \in {"file", "dir"}
    /\ continue_on_error \in BOOLEAN
    /\ output_dir \in BOOLEAN
    /\ input_file = NoFile /\ output_file = NoFile /\ verdict = NoVerdict
    /\ n_files = 0 /\ results = <<>> /\ stats = ZeroStats /\ observed = <<>>
    /\ batch_return = NoReturn /\ exit_code = -1
    /\ CorpusIdle
    /\ ParseIdle

\* single-file mode (lines 431-436); an exception leaving main ends the
\* interpreter with status 1
SingleFile ==
    /\ tool_pc = "main" /\ mode = "file"
    /\ \E inp \in InputFiles, out \in (IF output_dir THEN InputFiles ELSE {NoFile}) :
         LET success == verify_bad_char_elimination(inp, out, bad_chars)
         IN  /\ input_file' = inp
             /\ output_file' = out
             /\ verdict' = success
             /\ exit_code' = IF success = Return(TRUE) THEN 0 ELSE 1
    /\ tool_pc' = "exited"
    /\ UNCHANGED <<parseVars, corpusVars, shellcode_data, bad_chars, analysis, mode, output_dir, continue_on_error,
                   n_files, results, stats, observed, batch_return>>

\* batch_verify_bad_char_elimination up to the loop (lines 217-274)
BatchStart ==
    /\ tool_pc = "main" /\ mode = "dir"
    /\ \E n \in 0..MaxFiles :
         /\ n_files' = n
         /\ IF n = 0
            THEN /\ batch_return' = [total |-> 0, successful |-> 0, failed |-> 0,
                                     errors |-> 0, results |-> <<>>]
                 /\ tool_pc' = "returned"
                 /\ stats' = stats
            ELSE /\ batch_return' = batch_return
                 /\ tool_pc' = "loop"
                 /\ stats' = [total |-> n, successful |-> 0, failed |-> 0, errors |-> 0]
    /\ results' = <<>>
    /\ UNCHANGED <<parseVars, corpusVars, shellcode_data, bad_chars, analysis, mode, input_file, output_file, verdict,
                   output_dir, continue_on_error, observed, exit_code>>

\* the break of lines 312-314, taken on every exception
BreakLoopAlways(raised, continue_flag) == raised

\* the break of lines 312-314
BreakLoop(raised, continue_flag) == raised /\ ~continue_flag

NonePath == [some |-> FALSE, v |-> 0]

\* one iteration of the loop of lines 276-314
BatchIteration ==
    /\ tool_pc = "loop"
    /\ Len(results) < n_files
    /\ \E inp \in DiscoveredFiles, out \in (IF output_dir THEN MirroredFiles ELSE {NoFile}) :
         LET i == Len(results) + 1
             path == IF output_dir THEN Some(i) ELSE NonePath
             result == verify_bad_char_elimination(inp, out, bad_chars)
             raised == result.kind = "raise"
             checked == IF out.given THEN out ELSE inp
         IN  /\ observed' = Append(observed,
                    [input |-> inp.kind, output |-> out.kind, raised |-> raised,
                     dirty |-> checked.kind = "file"
                               /\ BadOffsets(checked.data, DefaultBadChars(bad_chars)) # {}])
             /\ IF ~raised
                THEN /\ stats' = IF result.value
                                 THEN [stats EXCEPT !.successful = @ + 1]
                                 ELSE [stats EXCEPT !.failed = @ + 1]
                     /\ results' = Append(results,
                            [file |-> i, output_file |-> path, success |-> result.value,
                             status |-> IF result.value THEN "SUCCESS" ELSE "FAILED"])
                ELSE /\ stats' = [stats EXCEPT !.errors = @ + 1]
                     /\ results' = Append(results,
                            [file |-> i, output_file |-> path, success |-> FALSE,
                             status |-> "ERROR", error |-> "exception"])
             /\ tool_pc' = IF BreakLoop(raised, continue_on_error) \/ i = n_files
                           THEN "summary" ELSE "loop"
    /\ UNCHANGED <<parseVars, corpusVars, shellcode_data, bad_chars, analysis, mode, input_file, output_file, verdict,
                   output_dir, continue_on_error, n_files, batch_return, exit_code>>

\* summary and return (lines 316-328): the stats dict is what is returned
BatchSummary ==
    /\ tool_pc = "summary"
    /\ batch_return' = stats
    /\ tool_pc' = "returned"
    /\ UNCHANGED <<parseVars, corpusVars, shellcode_data, bad_chars, analysis, mode, input_file, output_file, verdict,
                   output_dir, continue_on_error, n_files, results, stats, observed, exit_code>>

\* the exit status of lines 429-430, failing for failed files as well
BatchExitCodeCountingFailed(success) ==
    IF success.errors = 0 /\ success.failed = 0 THEN 0 ELSE 1

\* the exit status of lines 429-430, from the dictionary the batch returned
BatchExitCode(success) == IF success.errors = 0 THEN 0 ELSE 1

\* batch mode exit status (lines 428-430)
BatchExit ==
    /\ tool_pc = "returned"
    /\ exit_code' = BatchExitCode(batch_return)
    /\ tool_pc' = "exited"
    /\ UNCHANGED <<parseVars, corpusVars, shellcode_data, bad_chars, analysis, mode, input_file, output_file, verdict,
                   output_dir, continue_on_error, n_files, results, stats, observed, batch_return>>

NextTool == SingleFile \/ BatchStart \/ BatchIteration \/ BatchSummary \/ BatchExit

SpecTool == InitTool /\ [][NextTool]_vars


\* ------------------------------------------------ specification: test_all_bins.main
\* main() up to line 214
InitCorpus ==
    /\ AnalyzerIdle /\ bad_chars = None
    /\ ToolIdle
    /\ ParseIdle
    /\ total_count \in 0..MaxBins
    /\ corpus_pc = IF total_count = 0 THEN "save" ELSE "biphasic"
    /\ tests = <<>>
    /\ cstats = [m \in Modes |-> ZeroModeStats]
    /\ biphasic_test = NoTest /\ parsed_stats = NoParse /\ last_run = NoRun
    /\ report_written = FALSE /\ comparison = NoComparison

\* the biphasic half of one loop iteration (lines 216-281)
TestBiphasic ==
    /\ corpus_pc = "biphasic"
    /\ \E beh \in Behaviours :
         LET biphasic_result == run_byvalver(beh)
             parsed == parse_byvalver_output(biphasic_result.output, biphasic_result.error)
         IN  /\ last_run' = Ran(beh)
             /\ parsed_stats' = parsed
             /\ IF parsed.raised
                THEN /\ corpus_pc' = "crashed"
                     /\ UNCHANGED <<cstats, biphasic_test>>
                ELSE /\ corpus_pc' = "non_biphasic"
                     /\ cstats' = UpdateStats(cstats, "biphasic", biphasic_result)
                     /\ biphasic_test' = TestRecord(biphasic_result)
    /\ UNCHANGED <<parseVars, shellcode_data, bad_chars, analysis, toolVars,
                   total_count, tests, report_written, comparison>>

\* the non-biphasic half of one loop iteration (lines 283-359)
TestNonBiphasic ==
    /\ corpus_pc = "non_biphasic"
    /\ \E beh \in Behaviours :
         LET non_biphasic_result == run_byvalver(beh)
             parsed == parse_byvalver_output(non_biphasic_result.output,
                                             non_biphasic_result.error)
         IN  /\ last_run' = Ran(beh)
             /\ parsed_stats' = parsed
             /\ IF parsed.raised
                THEN /\ corpus_pc' = "crashed"
                     /\ UNCHANGED <<cstats, biphasic_test, tests>>
                ELSE /\ cstats' = UpdateStats(cstats, "non_biphasic", non_biphasic_result)
                     /\ tests' = Append(tests,
                            [index |-> Len(tests) + 1,
                             biphasic_test |-> biphasic_test,
                             non_biphasic_test |-> TestRecord(non_biphasic_result)])
                     /\ biphasic_test' = NoTest
                     /\ corpus_pc' = IF Len(tests) + 1 = total_count THEN "save" ELSE "biphasic"
    /\ UNCHANGED <<parseVars, shellcode_data, bad_chars, analysis, toolVars,
                   total_count, report_written, comparison>>

\* the report is written (lines 361-369)
SaveResults ==
    /\ corpus_pc = "save"
    /\ report_written' = TRUE
    /\ corpus_pc' = "summary"
    /\ UNCHANGED <<parseVars, shellcode_data, bad_chars, analysis, toolVars,
                   total_count, tests, cstats, biphasic_test, parsed_stats, last_run, comparison>>

\* the comparison of lines 428-436, calling two different statuses a difference
BucketByEquality(biphasic_status, non_biphasic_status) ==
    IF biphasic_status = non_biphasic_status THEN "same_result"
    ELSE IF biphasic_status = "SUCCESS" THEN "better_biphasic"
    ELSE "better_non_biphasic"

\* the counter one file adds to in the mode comparison (lines 428-436)
Bucket(biphasic_status, non_biphasic_status) ==
    LET biphasic_success == biphasic_status \in {"SUCCESS"}
        non_biphasic_success == non_biphasic_status \in {"SUCCESS"}
    IN  IF biphasic_success /\ ~non_biphasic_success THEN "better_biphasic"
        ELSE IF non_biphasic_success /\ ~biphasic_success THEN "better_non_biphasic"
        ELSE "same_result"

\* the summary (lines 371-475); the percentages divide by total_count
Summary ==
    /\ corpus_pc = "summary"
    /\ IF total_count = 0
       THEN /\ corpus_pc' = "crashed"                \* ZeroDivisionError at line 383
            /\ comparison' = comparison
       ELSE LET bucket(k) == Bucket(tests[k].biphasic_test.status,
                                      tests[k].non_biphasic_test.status)
                files == 1..Len(tests)
            IN  /\ comparison' =
                     [better_biphasic |->
                          Cardinality({k \in files : bucket(k) = "better_biphasic"}),
                      better_non_biphasic |->
                          Cardinality({k \in files : bucket(k) = "better_non_biphasic"}),
                      same_result |->
                          Cardinality({k \in files : bucket(k) = "same_result"})]
                /\ corpus_pc' = "done"
    /\ UNCHANGED <<parseVars, shellcode_data, bad_chars, analysis, toolVars,
                   total_count, tests, cstats, biphasic_test, parsed_stats, last_run,
                   report_written>>

NextCorpus == TestBiphasic \/ TestNonBiphasic \/ SaveResults \/ Summary

SpecCorpus == InitCorpus /\ [][NextCorpus]_vars


\* ------------------------------------------------ specification: one parse_bad_chars call
InitParse ==
    /\ AnalyzerIdle /\ bad_chars = None
    /\ ToolIdle
    /\ CorpusIdle
    /\ bad_chars_str \in SeqsUpTo(Chars, MaxStrLen)
    /\ parsed_bad_chars = None

ParseBadChars ==
    /\ parsed_bad_chars = None
    /\ parsed_bad_chars' = Some(parse_bad_chars(bad_chars_str))
    /\ UNCHANGED <<bad_chars_str, shellcode_data, bad_chars, analysis, toolVars, corpusVars>>

NextParse == ParseBadChars

SpecParse == InitParse /\ [][NextParse]_vars

Analyzed == analysis # NoAnalysis
\* ---------------------------------------------------- analyzer properties
RunLengths(a) == [k \in 1..Len(a.bad_char_sequences) |-> a.bad_char_sequences[k].length]
StrictlyIncreasing(s) == \A k \in 1..(Len(s) - 1) : s[k] < s[k + 1]
Range(s) == {s[k] : k \in 1..Len(s)}

\* C1: for every byte sequence and non-empty bad-character set the reported
\* bad_char_count is the number of offsets holding a member of the set.
C1_CountIsNumberOfBadBytes ==
    (Analyzed /\ analysis.bad_chars_used # {}) =>
        analysis.bad_char_count =
            Cardinality(BadOffsets(shellcode_data, analysis.bad_chars_used))

\* C2: the lengths of the reported runs add up to the reported bad_char_count.
C2_RunLengthsSumToCount ==
    Analyzed => SumSeq(RunLengths(analysis)) = analysis.bad_char_count

\* C3: for each bad value v, bad_char_positions[v] is the increasing list of
\* all offsets holding v, interior bytes of a run included.
C3_PositionsListEveryOffset ==
    Analyzed =>
        \A v \in analysis.bad_chars_used :
            /\ StrictlyIncreasing(analysis.bad_char_positions[v])
            /\ Range(analysis.bad_char_positions[v]) = OffsetsOf(shellcode_data, v)

\* C4: every reported run is a maximal contiguous span of bad bytes (of one
\* value or mixed), runs are in increasing start order, never adjacent or
\* overlapping, and max_consecutive_bad_chars is the longest run length or 0.
C4_RunsAreMaximal ==
    Analyzed =>
        LET S    == analysis.bad_chars_used
            runs == analysis.bad_char_sequences
            n    == Len(shellcode_data)
        IN  /\ \A k \in 1..Len(runs) :
                 LET s == runs[k].start
                     l == runs[k].length
                 IN  /\ s >= 0 /\ l >= 1 /\ s + l <= n
                     /\ runs[k].bytes = SubSeq(shellcode_data, s + 1, s + l)
                     /\ \A j \in s..(s + l - 1) : shellcode_data[j + 1] \in S
                     /\ s > 0 => shellcode_data[s] \notin S
                     /\ s + l < n => shellcode_data[s + l + 1] \notin S
            /\ \A k \in 1..(Len(runs) - 1) :
                 runs[k].start + runs[k].length < runs[k + 1].start
            /\ analysis.max_consecutive_bad_chars >= 0
            /\ \A k \in 1..Len(runs) : runs[k].length <= analysis.max_consecutive_bad_chars
            /\ IF runs = <<>> THEN analysis.max_consecutive_bad_chars = 0
               ELSE \E k \in 1..Len(runs) :
                        runs[k].length = analysis.max_consecutive_bad_chars

\* an analysis with two runs, the longer one mixing two bad values
C4_Witness ==
    /\ Analyzed
    /\ Len(analysis.bad_char_sequences) = 2
    /\ \E k \in 1..2 :
         /\ analysis.bad_char_sequences[k].length >= 2
         /\ Cardinality(Range(analysis.bad_char_sequences[k].bytes)) = 2
    /\ analysis.max_consecutive_bad_chars >= 2
\* ------------------------------------------------ engine and batch properties
Verified == mode = "file" /\ tool_pc = "exited"
BothFilesRead ==
    /\ Verified
    /\ input_file.kind = "file"
    /\ output_file.given /\ output_file.kind = "file"
BatchReturned == mode = "dir" /\ tool_pc \in {"returned", "exited"}

\* C5: with an original and a processed file both present, the engine returns
\* pass exactly when the processed bytes hold no bad character, whatever the
\* original's bad bytes and the size difference.
C5_PassIffProcessedClean ==
    BothFilesRead =>
        (verdict = Return(TRUE)
            <=> BadOffsets(output_file.data, DefaultBadChars(bad_chars)) = {})

\* a pass although the original held bad bytes and the processed file is
\* shorter than the original
C5_Witness ==
    /\ BothFilesRead
    /\ verdict = Return(TRUE)
    /\ BadOffsets(input_file.data, DefaultBadChars(bad_chars)) # {}
    /\ Len(output_file.data) < Len(input_file.data)
    /\ Len(output_file.data) > 0

\* C6: a missing original, or a processed path that was given but is missing,
\* ends the engine in a hard error its caller can tell from a fail verdict.
C6_MissingFileIsHardError ==
    (Verified /\ (input_file.kind = "absent"
                  \/ (output_file.given /\ output_file.kind = "absent"))) =>
        verdict # Return(FALSE)

\* C7: with an output directory and continue_on_error = false, the first file
\* whose output counterpart is missing is the last one processed and the
\* returned errors counter is 1.
C7_MissingOutputStopsBatch ==
    (BatchReturned /\ output_dir /\ ~continue_on_error) =>
        \A k \in 1..Len(observed) :
            (/\ observed[k].output = "absent"
             /\ \A j \in 1..(k - 1) : observed[j].output # "absent")
            => (Len(results) = k /\ batch_return.errors = 1)

\* C8: an exception while verifying a file records the file as ERROR and adds
\* one to errors; without continue_on_error the loop then stops, with it every
\* discovered file is still processed; a pass or fail verdict never stops the loop.
C8_ExceptionPolicy ==
    mode = "dir" =>
        /\ Len(observed) = Len(results)
        /\ \A k \in 1..Len(results) :
             /\ observed[k].raised <=> results[k].status = "ERROR"
             /\ (observed[k].raised /\ ~continue_on_error) =>
                    (k = Len(results) /\ tool_pc # "loop")
        /\ stats.errors = Cardinality({k \in 1..Len(results) : observed[k].raised})
        /\ BatchReturned =>
             \/ Len(results) = n_files
             \/ (~continue_on_error /\ Len(results) >= 1 /\ observed[Len(results)].raised)

\* two batches seen at their return: one that continued past an exception
\* on its first file, ...
C8_Witness ==
    /\ BatchReturned /\ continue_on_error
    /\ n_files = 2 /\ Len(results) = n_files
    /\ observed[1].raised /\ results[1].status = "ERROR"
    /\ results[2].status = "FAILED"
    /\ batch_return.errors = 1

\* ... and one that was stopped by it, after a fail verdict that did not stop it
C8_WitnessStopped ==
    /\ BatchReturned /\ ~continue_on_error
    /\ n_files = 2 /\ Len(results) = 1
    /\ results[1].status = "ERROR"
\* ------------------------------------------------ corpus run properties
\* the latest invocation has been classified, and its record
LastClassified ==
    /\ last_run # NoRun
    /\ corpus_pc # "crashed"
LastTest ==
    IF corpus_pc = "non_biphasic" THEN biphasic_test
    ELSE tests[Len(tests)].non_biphasic_test
ExitedZero == last_run.launch = "exit" /\ last_run.returncode = 0
OutputPresent == last_run.file.effect # "delete"
OutputNulls == Cardinality(OffsetsOf(last_run.file.data, 0))

C10_NoArtifactIsFailed ==
    (LastClassified /\ ExitedZero /\ last_run.file.effect \in {"none", "delete"}) =>
        LastTest.status = "FAILED"
\* C11: at the end of the run every file is in exactly one bucket: biphasic
\* better iff only the biphasic status is SUCCESS, non-biphasic better iff only
\* the non-biphasic status is SUCCESS, same otherwise; the three counts sum to
\* the number of corpus files.
C11_ModeComparisonBuckets ==
    corpus_pc = "done" =>
        LET files == 1..Len(tests)
            b(k) == tests[k].biphasic_test.status
            n(k) == tests[k].non_biphasic_test.status
        IN  /\ comparison.better_biphasic =
                 Cardinality({k \in files : b(k) = "SUCCESS" /\ n(k) # "SUCCESS"})
            /\ comparison.better_non_biphasic =
                 Cardinality({k \in files : n(k) = "SUCCESS" /\ b(k) # "SUCCESS"})
            /\ comparison.same_result =
                 Cardinality({k \in files : (b(k) = "SUCCESS") <=> (n(k) = "SUCCESS")})
            /\ comparison.better_biphasic + comparison.better_non_biphasic
                   + comparison.same_result = total_count

\* a finished run holding a file whose two modes failed in different ways,
\* counted as the same result
C11_Witness ==
    /\ corpus_pc = "done"
    /\ comparison.same_result >= 1
    /\ \E k \in 1..Len(tests) :
         /\ tests[k].biphasic_test.status = "TIMEOUT"
         /\ tests[k].non_biphasic_test.status = "NULLS_REMAINING"
\* the records of one mode so far, the pending biphasic one included
ModeRecords(m) ==
    IF m = "biphasic"
    THEN [k \in 1..Len(tests) |-> tests[k].biphasic_test]
             \o (IF biphasic_test # NoTest THEN <<biphasic_test>> ELSE <<>>)
    ELSE [k \in 1..Len(tests) |-> tests[k].non_biphasic_test]
StatusCount(m, statuses) ==
    Cardinality({k \in 1..Len(ModeRecords(m)) : ModeRecords(m)[k].status \in statuses})
LastMode == IF corpus_pc = "non_biphasic" THEN "biphasic" ELSE "non_biphasic"
\* a record left by an invocation that raised: no exit code and no timeout
RaisedRecord(r) == r.exit_code = NoExitCode /\ ~r.timed_out

C13_RunIsNeverAborted ==
    /\ last_run # NoRun => corpus_pc # "crashed"
    /\ corpus_pc = "done" => (report_written /\ Len(tests) = total_count)
\* ------------------------------------------------ parse_bad_chars properties
Parsed == parsed_bad_chars.some
\* the tokens of the string: the maximal comma-free stretches, as index pairs
TokenSpans(str) ==
    {sp \in (1..Len(str)) \X (1..Len(str)) :
        /\ sp[1] <= sp[2]
        /\ \A i \in sp[1]..sp[2] : str[i] # ","
        /\ sp[1] = 1 \/ str[sp[1] - 1] = ","
        /\ sp[2] = Len(str) \/ str[sp[2] + 1] = ","}
\* the index pairs inside a token left after the blanks at both ends are cut
Trimmed(str, sp) ==
    {tr \in (sp[1]..sp[2]) \X (sp[1]..sp[2]) :
        /\ tr[1] <= tr[2]
        /\ str[tr[1]] # " " /\ str[tr[2]] # " "
        /\ \A i \in (sp[1]..(tr[1] - 1)) \cup ((tr[2] + 1)..sp[2]) : str[i] = " "}
RECURSIVE Pow16(_)
Pow16(n) == IF n = 0 THEN 1 ELSE 16 * Pow16(n - 1)
RECURSIVE SumOver(_, _)
SumOver(S, f) ==
    IF S = {} THEN 0 ELSE LET x == CHOOSE y \in S : TRUE IN f[x] + SumOver(S \ {x}, f)
\* the stretch str[a..b] is a hexadecimal number (a sign may lead)
IsNumber(str, a, b) ==
    LET first == IF str[a] = "-" THEN a + 1 ELSE a
    IN  first <= b /\ \A i \in first..b : str[i] \in {"0", "f"}
\* the value the stretch str[a..b] denotes, by the weight of each digit
ValueOf(str, a, b) ==
    LET first == IF str[a] = "-" THEN a + 1 ELSE a
        magnitude == SumOver(first..b,
                             [i \in first..b |->
                                 (IF str[i] = "f" THEN 15 ELSE 0) * Pow16(b - i)])
    IN  IF str[a] = "-" THEN 0 - magnitude ELSE magnitude
TokenValues(str) ==
    {ValueOf(str, x[2][1], x[2][2]) :
        x \in {y \in TokenSpans(str) \X ((1..Len(str)) \X (1..Len(str))) :
                  y[2] \in Trimmed(str, y[1]) /\ IsNumber(str, y[2][1], y[2][2])}}
ValidValues(str) == TokenValues(str) \cap (0..255)

\* C14: parse_bad_chars returns the values of the tokens that are hexadecimal
\* numbers in [0, 255], dropping the other tokens and keeping the valid ones;
\* with no valid token it returns {0x00}; the result is never empty and lies
\* in [0, 255].
C14_ParseKeepsValidTokens ==
    Parsed =>
        /\ parsed_bad_chars.v =
             IF ValidValues(bad_chars_str) = {} THEN {0} ELSE ValidValues(bad_chars_str)
        /\ parsed_bad_chars.v # {}
        /\ parsed_bad_chars.v \subseteq 0..255

\* "0,f,Z": the two valid tokens are kept, the invalid one is dropped
C14_Witness ==
    /\ Parsed
    /\ \E k \in 1..Len(bad_chars_str) : bad_chars_str[k] = "Z"
    /\ parsed_bad_chars.v = {0, 15}
\* ------------------------------------------------ exit status of the verification tool
Exited == tool_pc = "exited"
EntriesWith(status) == {k \in 1..Len(results) : results[k].status = status}

\* C15: the exit code is 0 in single-file mode iff the verification passed,
\* and 0 in directory mode iff no file of the batch ended in ERROR, whatever
\* the number of files that passed or failed; otherwise it is 1.
C15_ExitCode ==
    Exited =>
        /\ exit_code \in {0, 1}
        /\ mode = "file" => (exit_code = 0 <=> verdict = Return(TRUE))
        /\ mode = "dir" => /\ exit_code = 0 <=> EntriesWith("ERROR") = {}
                           /\ exit_code = 0 <=> batch_return.errors = 0

\* a batch with a failed file and no error exits with 0
C15_Witness ==
    /\ Exited /\ mode = "dir"
    /\ EntriesWith("FAILED") # {} /\ EntriesWith("ERROR") = {}
    /\ exit_code = 0
\* ------------------------------------------------ status and the transformer's text
\* the latest run with the same timeout flag, exit code and output file, and
\* no text on stdout and stderr
SilentRun ==
    [launch |-> last_run.launch, returncode |-> last_run.returncode,
     stdout |-> <<>>, stderr |-> <<>>, file |-> last_run.file]

\* C16: the status of an outcome does not depend on the text the transformer
\* printed: whatever the text, the outcome is classified, and with the status
\* that the same timeout flag, exit code and output file get with no text.
C16_StatusIgnoresText ==
    last_run # NoRun =>
        /\ corpus_pc # "crashed"
        /\ LastTest.status = Status(run_byvalver(SilentRun))
\* ------------------------------------------------ what the batch returns
\* C17: the batch returns the counts total/successful/failed/errors and one
\* entry per processed file with its status (SUCCESS, FAILED or ERROR) and,
\* for ERROR, the error message; there are successful + failed + errors entries.
C17_BatchReturnsPerFileEntries ==
    BatchReturned =>
        /\ {"total", "successful", "failed", "errors", "results"} \subseteq DOMAIN batch_return
        /\ Len(batch_return.results) =
             batch_return.successful + batch_return.failed + batch_return.errors
        /\ \A k \in 1..Len(batch_return.results) :
             /\ batch_return.results[k].status \in {"SUCCESS", "FAILED", "ERROR"}
             /\ batch_return.results[k].status = "ERROR"
                    => "error" \in DOMAIN batch_return.results[k]
\* ------------------------------------------------ the per-mode counters
FourCounters(m) ==
    cstats[m].successful + cstats[m].failed + cstats[m].errors + cstats[m].timed_out
BetweenFiles == corpus_pc \in {"biphasic", "save", "summary", "done"}

\* C18: with k files fully processed, each mode's successful + failed + errors
\* + timed_out is k; every outcome adds one to exactly one counter of its own
\* mode (NULLS_REMAINING and FAILED both to failed), so each counter is the
\* number of the mode's outcomes with its statuses; at the end the four sum to
\* the corpus size.
C18_CountersSumToProcessed ==
    \A m \in Modes :
        /\ cstats[m].successful = StatusCount(m, {"SUCCESS"})
        /\ cstats[m].failed = StatusCount(m, {"NULLS_REMAINING", "FAILED"})
        /\ cstats[m].errors = StatusCount(m, {"ERROR"})
        /\ cstats[m].timed_out = StatusCount(m, {"TIMEOUT"})
        /\ FourCounters(m) = Len(ModeRecords(m))
        /\ BetweenFiles => FourCounters(m) = Len(tests)
        /\ corpus_pc = "done" => FourCounters(m) = total_count

\* a finished run in which one mode left nulls and the other made no output
C18_Witness ==
    /\ corpus_pc = "done" /\ total_count > 0
    /\ StatusCount("biphasic", {"NULLS_REMAINING"}) > 0
    /\ StatusCount("non_biphasic", {"FAILED"}) > 0
\* ------------------------------------------------ the running total of bad bytes
\* the outcomes of a mode whose output file was read and counted
Inspected(m) == {k \in 1..Len(ModeRecords(m)) : ModeRecords(m)[k].nulls_remaining >= 0}
InspectedNulls(m) ==
    SumOver(Inspected(m), [k \in Inspected(m) |-> ModeRecords(m)[k].nulls_remaining])

\* C19: each mode's total_null_bytes_found is never negative and is the sum of
\* the null counts of the outputs that were inspected for that mode; an outcome
\* whose output was not inspected leaves it unchanged.
C19_NullTotalIsSumOfInspected ==
    \A m \in Modes :
        /\ cstats[m].total_null_bytes_found >= 0
        /\ cstats[m].total_null_bytes_found = InspectedNulls(m)
====
